---- MODULE Spec2Model ----
(***************************************************************************)
(* Recipe catalog: the list endpoint (getRecipes) and the two versions of  *)
(* the search endpoint (searchRecipes) of the recipe controller, the       *)
(* record store they read and the seed script that rewrites the            *)
(* collection from a dataset file.                                         *)
(*                                                                         *)
(* Query-string values are JavaScript strings, modelled as sequences of    *)
(* one-character strings.  Numbers are fixed-point with one decimal digit: *)
(* the integer n stands for n/10 (rating 4.5 is 45, a total_time of 3 is   *)
(* 30).  page, limit and skip are plain integers.                          *)
(*                                                                         *)
(* The browser side is the state of AppContent (app), of RecipeTable       *)
(* (table), of RecipeProvider (drawer) and the requests the page has sent  *)
(* to the list endpoint and not yet seen answered (fetches).               *)
(***************************************************************************)
EXTENDS Integers, Sequences, FiniteSets, TLC

VARIABLES db, dataFile, seedPc, seedI, pc, ep, req, page, limit, skip, sort,
          query, recipes, total, res, wrote, app, table, fetches, drawer

vars == <<db, dataFile, seedPc, seedI, pc, ep, req, page, limit, skip, sort,
          query, recipes, total, res, wrote, app, table, fetches, drawer>>

(***************************************************************************)
(* Bounds                                                                  *)
(***************************************************************************)
\* largest number of query-string parameters one request carries
MaxGiven == 2

\* largest number of entries of a short dataset file
MaxEntries == 2

\* largest number of requests the page sends
MaxFetches == 3

\* largest number of scheduled callbacks of closeRecipeDetails
MaxTimers == 2

(***************************************************************************)
(* JavaScript strings and number parsing                                   *)
(***************************************************************************)
DigitChars == {"0", "1", "2", "3", "4", "5", "6", "7", "8", "9"}

DigitVal(c) ==
  CASE c = "0" -> 0 [] c = "1" -> 1 [] c = "2" -> 2 [] c = "3" -> 3
    [] c = "4" -> 4 [] c = "5" -> 5 [] c = "6" -> 6 [] c = "7" -> 7
    [] c = "8" -> 8 [] c = "9" -> 9

\* number of consecutive digit characters of s starting at position i
RECURSIVE DigitRun(_, _)
DigitRun(s, i) ==
  IF i <= Len(s) /\ s[i] \in DigitChars THEN 1 + DigitRun(s, i + 1) ELSE 0

\* value of the n digits of s starting at position i
RECURSIVE DigitsValue(_, _, _)
DigitsValue(s, i, n) ==
  IF n = 0 THEN 0
  ELSE 10 * DigitsValue(s, i, n - 1) + DigitVal(s[i + n - 1])

NaN == [nan |-> TRUE, v |-> 0]
Number(n) == [nan |-> FALSE, v |-> n]

SignLen(s) == IF Len(s) >= 1 /\ s[1] \in {"-", "+"} THEN 1 ELSE 0
SignOf(s) == IF Len(s) >= 1 /\ s[1] = "-" THEN -1 ELSE 1

\* parseInt(s, 10): optional sign, then the longest run of digits; NaN when
\* there is no digit.  The value is a plain integer.
parseInt(s) ==
  LET b == SignLen(s) + 1
      n == DigitRun(s, b)
  IN IF n = 0 THEN NaN ELSE Number(SignOf(s) * DigitsValue(s, b, n))

\* parseFloat(s): optional sign, digits, optionally "." and digits; NaN when
\* neither part has a digit.  The value is in tenths (inputs carry at most
\* one decimal digit).
parseFloat(s) ==
  LET b  == SignLen(s) + 1
      n  == DigitRun(s, b)
      dp == b + n
      m  == IF dp <= Len(s) /\ s[dp] = "." THEN DigitRun(s, dp + 1) ELSE 0
      ip == DigitsValue(s, b, n)
      fp == IF m = 0 THEN 0 ELSE DigitVal(s[dp + 1])
  IN IF n = 0 /\ m = 0 THEN NaN ELSE Number(SignOf(s) * (10 * ip + fp))

\* x || d for a number x: NaN and 0 are falsy
OrDefault(x, d) == IF x.nan \/ x.v = 0 THEN d ELSE x.v

\* a query-string parameter is truthy when present and not the empty string
Given(r, p) == p \in DOMAIN r
Truthy(r, p) == Given(r, p) /\ r[p] # <<>>

LowerChar(c) ==
  CASE c = "A" -> "a" [] c = "B" -> "b" [] OTHER -> c

(***************************************************************************)
(* Filter predicates.  A query maps a key to one predicate; assigning a    *)
(* key twice keeps the last assignment.                                    *)
(***************************************************************************)
Regex(s) == [op |-> "regex", s |-> s, nan |-> FALSE, v |-> 0, fields |-> <<>>]
OrRegex(fs, s) == [op |-> "or", s |-> s, nan |-> FALSE, v |-> 0, fields |-> fs]
Cmp(o, x) == [op |-> o, s |-> <<>>, nan |-> x.nan, v |-> x.v, fields |-> <<>>]

EmptyQuery == [k \in {} |-> Regex(<<>>)]

\* query[k] = p
Assign(q, k, p) == (k :> p) @@ q

NullStr == <<"n", "u", "l", "l">>
UndefinedStr == <<"u", "n", "d", "e", "f", "i", "n", "e", "d">>

\* handleNumberFilter: NaN stands for the null it returns
handleNumberFilter(value) ==
  IF value = NullStr \/ value = UndefinedStr THEN NaN
  ELSE parseFloat(value)

NumericFilterFields == <<"prep_time", "cook_time", "total_time", "rating">>

\* NumericPass that leaves a key alone once a predicate is written on it
RECURSIVE NumericPassKeepFirst(_, _, _)
NumericPassKeepFirst(q, r, i) ==
  IF i > Len(NumericFilterFields) THEN q
  ELSE LET field == NumericFilterFields[i]
           value == handleNumberFilter(r[field])
       IN NumericPassKeepFirst(IF Given(r, field) /\ ~value.nan /\ field \notin DOMAIN q
                                 THEN Assign(q, field, Cmp("eq", value))
                                 ELSE q,
                               r, i + 1)

\* the forEach over the numeric filter fields, from field number i on
RECURSIVE NumericPass(_, _, _)
NumericPass(q, r, i) ==
  IF i > Len(NumericFilterFields) THEN q
  ELSE LET field == NumericFilterFields[i]
           value == handleNumberFilter(r[field])
       IN NumericPass(IF Given(r, field) /\ ~value.nan
                        THEN Assign(q, field, Cmp("eq", value))
                        ELSE q,
                      r, i + 1)

\* parseInt result as a fixed-point number
IntNumber(x) == [nan |-> x.nan, v |-> 10 * x.v]

\* getRecipes: the filter built from the request parameters
\* ListQuery that also filters on title, as the search endpoint does
ListQueryWithTitle(r) ==
  LET q0 == IF Truthy(r, "title")
              THEN Assign(EmptyQuery, "title", Regex(r["title"]))
              ELSE EmptyQuery
      q1 == IF Truthy(r, "q")
              THEN Assign(q0, "$or",
                          OrRegex(<<"title", "cuisine", "description">>, r["q"]))
              ELSE q0
      q2 == IF Truthy(r, "cuisine")
              THEN Assign(q1, "cuisine", Regex(r["cuisine"]))
              ELSE q1
      q3 == IF Truthy(r, "rating")
              THEN Assign(q2, "rating", Cmp("gte", parseFloat(r["rating"])))
              ELSE q2
      q4 == IF Truthy(r, "maxTotalTime")
              THEN Assign(q3, "total_time",
                          Cmp("lte", IntNumber(parseInt(r["maxTotalTime"]))))
              ELSE q3
  IN NumericPass(q4, r, 1)

ListQuery(r) ==
  LET q0 == EmptyQuery
      q1 == IF Truthy(r, "q")
              THEN Assign(q0, "$or",
                          OrRegex(<<"title", "cuisine", "description">>, r["q"]))
              ELSE q0
      q2 == IF Truthy(r, "cuisine")
              THEN Assign(q1, "cuisine", Regex(r["cuisine"]))
              ELSE q1
      q3 == IF Truthy(r, "rating")
              THEN Assign(q2, "rating", Cmp("gte", parseFloat(r["rating"])))
              ELSE q2
      q4 == IF Truthy(r, "maxTotalTime")
              THEN Assign(q3, "total_time",
                          Cmp("lte", IntNumber(parseInt(r["maxTotalTime"]))))
              ELSE q3
  IN NumericPass(q4, r, 1)

GteStr == <<"g", "t", "e">>
LteStr == <<"l", "t", "e">>
EqStr == <<"e", "q">>

\* buildOperatorQuery: NaN stands for the null it returns
buildOperatorQuery(value, operator) ==
  LET num == parseFloat(value)
  IN IF num.nan THEN Cmp("none", NaN)
     ELSE CASE operator = GteStr -> Cmp("gte", num)
            [] operator = LteStr -> Cmp("lte", num)
            [] operator = EqStr -> Cmp("eq", num)
            [] OTHER -> Cmp("gte", num)

\* OpOr whose fallback is always 'gte'
OpOrGte(r, p, dflt) == IF Truthy(r, p) THEN r[p] ELSE GteStr

\* op || dflt
OpOr(r, p, dflt) == IF Truthy(r, p) THEN r[p] ELSE dflt

\* one "Filter by ..." block of searchRecipes
OperatorFilter(q, r, p, opParam, dflt, key) ==
  IF Truthy(r, p)
    THEN LET built == buildOperatorQuery(r[p], OpOr(r, opParam, dflt))
         IN IF built.op # "none" THEN Assign(q, key, built) ELSE q
    ELSE q

\* searchRecipes: the filter built from the request parameters
SearchQuery(r) ==
  LET q0 == EmptyQuery
      q1 == IF Truthy(r, "title")
              THEN Assign(q0, "title", Regex(r["title"]))
              ELSE q0
      q2 == IF Truthy(r, "cuisine")
              THEN Assign(q1, "cuisine", Regex(r["cuisine"]))
              ELSE q1
      q3 == OperatorFilter(q2, r, "rating", "ratingOp", GteStr, "rating")
      q4 == OperatorFilter(q3, r, "calories", "caloriesOp", GteStr,
                           "nutrients.calories")
  IN OperatorFilter(q4, r, "total_time", "timeOp", LteStr, "total_time")

\* the minRating block with the 1..5 range test left out
MinRatingFilterAnyRange(q, r) ==
  IF Truthy(r, "minRating")
    THEN LET rating == parseFloat(r["minRating"])
         IN IF ~rating.nan THEN Assign(q, "rating", Cmp("gte", rating)) ELSE q
    ELSE q

\* "Filter by minimum rating (1-5)" of the earlier searchRecipes
MinRatingFilter(q, r) ==
  IF Truthy(r, "minRating")
    THEN LET rating == parseFloat(r["minRating"])
         IN IF ~rating.nan /\ rating.v >= 10 /\ rating.v <= 50
              THEN Assign(q, "rating", Cmp("gte", rating))
              ELSE q
    ELSE q

\* "Filter by maximum preparation (cooking) time" of the earlier searchRecipes
MaxTimeFilter(q, r, p, key) ==
  IF Truthy(r, p)
    THEN LET time == parseInt(r[p])
         IN IF ~time.nan /\ time.v > 0
              THEN Assign(q, key, Cmp("lte", IntNumber(time)))
              ELSE q
    ELSE q

\* the earlier searchRecipes (q, cuisine, minRating, maxPrepTime,
\* maxCookTime): the filter built from the request parameters
SearchQueryB1(r) ==
  LET q0 == EmptyQuery
      q1 == IF Truthy(r, "q")
              THEN Assign(q0, "$or", OrRegex(<<"title", "description">>, r["q"]))
              ELSE q0
      q2 == IF Truthy(r, "cuisine")
              THEN Assign(q1, "cuisine", Regex(r["cuisine"]))
              ELSE q1
      q3 == MinRatingFilter(q2, r)
      q4 == MaxTimeFilter(q3, r, "maxPrepTime", "prep_time")
  IN MaxTimeFilter(q4, r, "maxCookTime", "cook_time")

\* PageOf that never goes below the first page
PageOfAtLeastOne(r) ==
  LET x == IF Given(r, "page") THEN parseInt(r["page"]) ELSE NaN
  IN IF x.nan \/ x.v < 1 THEN 1 ELSE x.v

\* const page = parseInt(req.query.page, 10) || 1
PageOf(r) == OrDefault(IF Given(r, "page") THEN parseInt(r["page"]) ELSE NaN, 1)

\* const limit = parseInt(req.query.limit, 10) || 10
LimitOf(r) == OrDefault(IF Given(r, "limit") THEN parseInt(r["limit"]) ELSE NaN, 10)

\* SkipOf that counts pages from 0
SkipOfZeroBased(pg, lim) == pg * lim

\* const skip = (page - 1) * limit
SkipOf(pg, lim) == (pg - 1) * lim

RatingStr == <<"r", "a", "t", "i", "n", "g">>
AscStr == <<"a", "s", "c">>

\* const sortBy = req.query.sortBy || 'rating'
SortByOf(r) == IF Truthy(r, "sortBy") THEN r["sortBy"] ELSE RatingStr

\* SortOrderOf that compares without regard to letter case
SortOrderOfAnyCase(r) ==
  IF Given(r, "sortOrder")
     /\ [i \in 1..Len(r["sortOrder"]) |->
           CASE r["sortOrder"][i] = "S" -> "s" [] r["sortOrder"][i] = "C" -> "c"
             [] OTHER -> LowerChar(r["sortOrder"][i])] = <<"a", "s", "c">>
    THEN 1 ELSE -1

\* const sortOrder = req.query.sortOrder === 'asc' ? 1 : -1
SortOrderOf(r) == IF Given(r, "sortOrder") /\ r["sortOrder"] = AscStr THEN 1 ELSE -1

\* const sort = { [sortBy]: sortOrder }
SortOf(r) == [field |-> SortByOf(r), dir |-> SortOrderOf(r)]

(***************************************************************************)
(* The record store: regular-expression and comparison predicates, sorted  *)
(* and windowed find, count.                                               *)
(***************************************************************************)
\* a pattern over the input alphabet is malformed when it opens a group,
\* since no input character closes one
RegexValid(pat) == \A j \in 1..Len(pat) : pat[j] # "("

\* pattern character pc against text character tc, option i
CharMatches(pch, tch) == pch = "." \/ LowerChar(pch) = LowerChar(tch)

\* { field: { $regex: pat, $options: 'i' } }: unanchored, case-insensitive
RegexTest(pat, text) ==
  \E i \in 0..(Len(text) - Len(pat)) :
    \A j \in 1..Len(pat) : CharMatches(pat[j], text[i + j])

CharRank(c) ==
  CASE c = "." -> 1 [] c \in DigitChars -> 2 + DigitVal(c)
    [] c = "A" -> 20 [] c = "B" -> 21 [] c = "a" -> 30 [] c = "b" -> 31
    [] c = "k" -> 32 [] OTHER -> 40

\* binary string order s <= t
RECURSIVE StrLeq(_, _)
StrLeq(s, t) ==
  IF s = <<>> THEN TRUE
  ELSE IF t = <<>> THEN FALSE
  ELSE IF CharRank(s[1]) # CharRank(t[1]) THEN CharRank(s[1]) < CharRank(t[1])
  ELSE StrLeq(Tail(s), Tail(t))

DigitChar(d) ==
  CASE d = 0 -> "0" [] d = 1 -> "1" [] d = 2 -> "2" [] d = 3 -> "3"
    [] d = 4 -> "4" [] d = 5 -> "5" [] d = 6 -> "6" [] d = 7 -> "7"
    [] d = 8 -> "8" [] d = 9 -> "9"

RECURSIVE NatStr(_)
NatStr(n) == IF n < 10 THEN <<DigitChar(n)>> ELSE NatStr(n \div 10) \o <<DigitChar(n % 10)>>

\* String(x) of a fixed-point number, the cast a String path applies to a
\* numeric operand
NumStr(x) ==
  LET a == IF x < 0 THEN -x ELSE x
      body == NatStr(a \div 10) \o
              (IF a % 10 = 0 THEN <<>> ELSE <<".", DigitChar(a % 10)>>)
  IN IF x < 0 THEN <<"-">> \o body ELSE body

NumberPaths == {"rating", "prep_time", "cook_time", "total_time"}

\* the record's value at a filter key
PathValue(doc, key) == IF key = "nutrients.calories" THEN doc.calories ELSE doc[key]

\* one predicate of the filter against one record
MatchPred(doc, key, p) ==
  CASE p.op = "or" -> \E i \in 1..Len(p.fields) : RegexTest(p.s, doc[p.fields[i]])
    [] p.op = "regex" -> RegexTest(p.s, PathValue(doc, key))
    [] OTHER ->
        IF p.nan THEN FALSE
        ELSE IF key \in NumberPaths
          THEN CASE p.op = "gte" -> doc[key] >= p.v
                 [] p.op = "lte" -> doc[key] <= p.v
                 [] OTHER -> doc[key] = p.v
          ELSE CASE p.op = "gte" -> StrLeq(NumStr(p.v), PathValue(doc, key))
                 [] p.op = "lte" -> StrLeq(PathValue(doc, key), NumStr(p.v))
                 [] OTHER -> PathValue(doc, key) = NumStr(p.v)

Matches(doc, q) == \A k \in DOMAIN q : MatchPred(doc, k, q[k])

\* the store refuses a filter holding a malformed pattern
QueryRejected(q) ==
  \E k \in DOMAIN q : q[k].op \in {"regex", "or"} /\ ~RegexValid(q[k].s)

\* a NaN operand: the store client may refuse to cast it, or the store
\* compares it and no record matches
QueryHasNaN(q) == \E k \in DOMAIN q : q[k].nan

MatchingIdx(coll, q) == {i \in 1..Len(coll) : Matches(coll[i], q)}

FieldOfStr(s) ==
  CASE s = <<"r", "a", "t", "i", "n", "g">> -> "rating"
    [] s = <<"t", "o", "t", "a", "l", "_", "t", "i", "m", "e">> -> "total_time"
    [] s = <<"p", "r", "e", "p", "_", "t", "i", "m", "e">> -> "prep_time"
    [] s = <<"c", "o", "o", "k", "_", "t", "i", "m", "e">> -> "cook_time"
    [] s = <<"t", "i", "t", "l", "e">> -> "title"
    [] s = <<"c", "u", "i", "s", "i", "n", "e">> -> "cuisine"
    [] OTHER -> "none"

\* d1 may precede d2 under the sort on field f in direction dir; records
\* tie on a field they lack
SortLeq(d1, d2, f, dir) ==
  LET a == IF dir = 1 THEN d1 ELSE d2
      b == IF dir = 1 THEN d2 ELSE d1
  IN IF f \in NumberPaths THEN a[f] <= b[f]
     ELSE IF f = "none" THEN TRUE
     ELSE StrLeq(a[f], b[f])

\* every order of the records at positions idx that respects the sort; the
\* order among records with equal keys is the store's choice
RECURSIVE OrdersOf(_, _, _, _)
OrdersOf(coll, idx, f, dir) ==
  IF idx = {} THEN {<<>>}
  ELSE UNION { { <<coll[i]>> \o rest : rest \in OrdersOf(coll, idx \ {i}, f, dir) } :
               i \in { m \in idx : \A o \in idx : SortLeq(coll[m], coll[o], f, dir) } }

SortedOrders(coll, q, srt) ==
  OrdersOf(coll, MatchingIdx(coll, q), FieldOfStr(srt.field), srt.dir)

Min(a, b) == IF a <= b THEN a ELSE b
Abs(a) == IF a < 0 THEN -a ELSE a

\* Window that ignores the offset
WindowFromStart(ord, sk, lim) == SubSeq(ord, 1, Min(Abs(lim), Len(ord)))

\* .skip(sk).limit(lim) of an ordered result; a negative limit returns
\* |lim| records
Window(ord, sk, lim) ==
  IF sk >= Len(ord) THEN <<>>
  ELSE SubSeq(ord, sk + 1, Min(sk + Abs(lim), Len(ord)))

Pending == [st |-> "pending", docs |-> <<>>, n |-> 0, skip |-> 0, limit |-> 0]
FindOk(docs, sk, lim) == [st |-> "ok", docs |-> docs, n |-> 0, skip |-> sk, limit |-> lim]
FindFailed(sk, lim) == [st |-> "failed", docs |-> <<>>, n |-> 0, skip |-> sk, limit |-> lim]
CountOk(n) == [st |-> "ok", docs |-> <<>>, n |-> n, skip |-> 0, limit |-> 0]
CountFailed == [st |-> "failed", docs |-> <<>>, n |-> 0, skip |-> 0, limit |-> 0]

\* Recipe.find(query).sort(sort).skip(skip).limit(limit).lean(); any read
\* can also fail because the store is unreachable. The n of a find records
\* how many records of the collection it read matched the filter.
FindOutcomes(coll, q, srt, sk, lim) ==
  IF QueryRejected(q) \/ sk < 0 THEN {FindFailed(sk, lim)}
  ELSE IF QueryHasNaN(q) THEN {FindFailed(sk, lim), FindOk(<<>>, sk, lim)}
  ELSE {[FindOk(Window(ord, sk, lim), sk, lim)
            EXCEPT !.n = Cardinality(MatchingIdx(coll, q))] :
          ord \in SortedOrders(coll, q, srt)}
         \cup {FindFailed(sk, lim)}

\* CountOutcomes that counts the whole collection
CountAllOutcomes(coll, q) ==
  IF QueryRejected(q) THEN {CountFailed}
  ELSE IF QueryHasNaN(q) THEN {CountFailed, CountOk(0)}
  ELSE {CountOk(Len(coll)), CountFailed}

\* Recipe.countDocuments(query)
CountOutcomes(coll, q) ==
  IF QueryRejected(q) THEN {CountFailed}
  ELSE IF QueryHasNaN(q) THEN {CountFailed, CountOk(0)}
  ELSE {CountOk(Cardinality(MatchingIdx(coll, q))), CountFailed}

(***************************************************************************)
(* The collection and the seed script                                      *)
(***************************************************************************)
\* a stored record; a Number field holds a number of tenths, or Null
Doc(id, t, c, d, r, p, k, tt, cal, ing, ins) ==
  [id |-> id, title |-> t, cuisine |-> c, description |-> d, rating |-> r,
   prep_time |-> p, cook_time |-> k, total_time |-> tt, calories |-> cal,
   ingredients |-> ing, instructions |-> ins]

\* null in a Number field of a stored record (the numbers the schema accepts
\* are never negative)
Null == -1

\* the records a previous import left in the collection
OldRecipes ==
  << Doc(901, <<"b">>, <<"a">>, <<"a">>, 50, 0, 10, 10, <<"4">>, <<>>, <<>>),
     Doc(902, <<"a", ".">>, <<"A">>, <<>>, 20, 20, 20, 40, <<"3", "5">>,
         <<>>, <<>>) >>

\* JSON values of a dataset entry: a property that is absent or null, a
\* number (in tenths), a string, an array of strings
Missing == [k |-> "missing", v |-> 0, s |-> <<>>]
Num(n) == [k |-> "number", v |-> n, s |-> <<>>]
Text(s) == [k |-> "text", v |-> 0, s |-> s]
List(s) == [k |-> "list", v |-> 0, s |-> s]

\* a dataset entry: the properties of one recipe the seed script reads
Entry(t, c, d, r, p, k, tt, cal, ing, ins) ==
  [title |-> t, cuisine |-> c, description |-> d, rating |-> r, prep_time |-> p,
   cook_time |-> k, total_time |-> tt, calories |-> cal, ingredients |-> ing,
   instructions |-> ins]

\* x || d
Falsy(x) ==
  \/ x.k = "missing"
  \/ (x.k = "number" /\ x.v = 0)
  \/ (x.k = "text" /\ x.s = <<>>)
Or(x, d) == IF Falsy(x) THEN d ELSE x

\* String(x)
Str(x) == IF x.k = "number" THEN NumStr(x.v) ELSE x.s

\* a + b: the sum of two numbers, the concatenation when either is a string
Plus(a, b) ==
  IF a.k = "number" /\ b.k = "number" THEN Num(a.v + b.v)
  ELSE Text(Str(a) \o Str(b))

UncategorizedStr ==
  <<"U", "n", "c", "a", "t", "e", "g", "o", "r", "i", "z", "e", "d">>

\* TotalTimeOf that leaves the cooking time out of the fallback
TotalTimeOfPrepOnly(recipe) ==
  Or(recipe.total_time, Or(recipe.prep_time, Num(0)))

\* recipe.total_time || (recipe.prep_time || 0) + (recipe.cook_time || 0)
TotalTimeOf(recipe) ==
  Or(recipe.total_time,
     Plus(Or(recipe.prep_time, Num(0)), Or(recipe.cook_time, Num(0))))

\* the object the formatting loop pushes for entry number i
FormatRecipe(i, recipe) ==
  [id |-> i,
   title |-> recipe.title,
   cuisine |-> Or(recipe.cuisine, Text(UncategorizedStr)),
   rating |-> Or(recipe.rating, Num(0)),
   prep_time |-> Or(recipe.prep_time, Num(0)),
   cook_time |-> Or(recipe.cook_time, Num(0)),
   total_time |-> TotalTimeOf(recipe),
   description |-> Or(recipe.description, Text(<<>>)),
   ingredients |-> Or(recipe.ingredients, List(<<>>)),
   instructions |-> Or(recipe.instructions, List(<<>>)),
   calories |-> Or(recipe.calories, Text(<<>>))]

batchSize == 50

\* the cast of a value to a Number path: a string must be a number through
\* and through
CastNumber(x) ==
  IF x.k = "number" THEN Number(x.v)
  ELSE LET n == parseFloat(x.s)
       IN IF x.k = "text" /\ ~n.nan /\ NumStr(n.v) = x.s THEN n ELSE NaN

\* schema validation of one record handed to insertMany
Valid(f) ==
  /\ f.title.k = "text" /\ f.title.s # <<>> /\ Len(f.title.s) <= 200
  /\ f.cuisine.k = "text" /\ f.cuisine.s # <<>>
  /\ ~CastNumber(f.rating).nan
  /\ CastNumber(f.rating).v >= 0 /\ CastNumber(f.rating).v <= 50
  /\ \A t \in {"prep_time", "cook_time", "total_time"} :
       ~CastNumber(f[t]).nan /\ CastNumber(f[t]).v >= 0

\* the pre('save') hook: a numeric field that is not a number becomes null.
\* It runs when a document is saved; insertMany does not run it.
preSave(f) ==
  [t \in DOMAIN f |->
     IF t \in NumberPaths /\ CastNumber(f[t]).nan THEN Num(Null) ELSE f[t]]

\* the record the store keeps for a record that passed validation
ToDoc(f) ==
  Doc(f.id, f.title.s, f.cuisine.s, f.description.s, CastNumber(f.rating).v,
      CastNumber(f.prep_time).v, CastNumber(f.cook_time).v,
      CastNumber(f.total_time).v, f.calories.s, f.ingredients.s,
      f.instructions.s)

ToDocs(fs) == [j \in 1..Len(fs) |-> ToDoc(fs[j])]

\* the dataset file the running system is seeded from
RecipeFile ==
  << Entry(Text(<<"A", "b">>), Text(<<"B">>), Text(<<"a">>), Num(45), Num(10),
           Num(20), Num(30), Text(<<"3", "5">>), List(<<"x">>), List(<<"y">>)),
     Entry(Text(<<"b", "a">>), Text(<<"a">>), Missing, Num(40), Num(10),
           Num(10), Missing, Text(<<"4">>), Missing, Missing),
     Entry(Text(<<"a">>), Text(<<"a", "b">>), Text(<<"B">>), Num(40), Num(20),
           Num(30), Num(50), Text(<<"3", "5", "0">>), List(<<"x">>), Missing),
     Entry(Text(<<"a", "a">>), Text(<<"a">>), Text(<<"a">>), Num(30), Missing,
           Num(40), Missing, Text(<<"2", "0", "k">>), Missing, List(<<"y">>)) >>

\* entries a dataset file can hold: complete, title and cuisine only, no
\* title, an empty title, total_time 0 beside a prep_time, no cuisine and a
\* cook_time only, a rating of 6, a rating that is not a number
PlainEntry ==
  Entry(Text(<<"a">>), Text(<<"b">>), Text(<<"a">>), Num(45), Num(10), Num(20),
        Num(40), Text(<<"4">>), List(<<"x">>), List(<<"y">>))
SeedEntries ==
  << PlainEntry,
     Entry(Text(<<"b">>), Text(<<"a">>), Missing, Missing, Missing, Missing,
           Missing, Missing, Missing, Missing),
     Entry(Missing, Text(<<"a">>), Missing, Num(40), Missing, Missing, Num(10),
           Missing, Missing, Missing),
     Entry(Text(<<>>), Missing, Missing, Num(30), Missing, Missing, Missing,
           Missing, Missing, Missing),
     Entry(Text(<<"a", "b">>), Text(<<"a">>), Missing, Num(0), Num(10), Missing,
           Num(0), Missing, List(<<>>), Missing),
     Entry(Text(<<"b", "a">>), Missing, Missing, Missing, Missing, Num(20),
           Missing, Missing, Missing, Missing),
     Entry(Text(<<"A">>), Text(<<"a">>), Missing, Num(60), Missing, Missing,
           Missing, Missing, Missing, Missing),
     Entry(Text(<<"B">>), Text(<<"a">>), Missing, Text(<<"x">>), Missing,
           Missing, Num(10), Missing, Missing, Missing) >>

\* a dataset file is named by its kind, its length n, the place j of its one
\* special entry and the numbers es of its entries in SeedEntries
FileName(kind, n, j, es) == [kind |-> kind, n |-> n, j |-> j, es |-> es]

\* the file the running system is seeded from
RecipeFileName == FileName("recipes", 0, 0, <<>>)

\* the files of at most n entries
RECURSIVE ShortFiles(_)
ShortFiles(n) ==
  IF n = 0 THEN {FileName("short", 0, 0, <<>>)}
  ELSE LET shorter == ShortFiles(n - 1)
       IN shorter \cup
          {FileName("short", 0, 0, Append(f.es, e)) :
             f \in {g \in shorter : Len(g.es) = n - 1},
             e \in 1..Len(SeedEntries)}

\* files of complete entries but for one, that fill one batch, start a
\* second one, or end inside a third
LongFiles ==
  { FileName("long", n, j, <<e>>) :
      n \in {batchSize, batchSize + 1, 2 * batchSize + 2},
      j \in {1, batchSize + 1},
      e \in {x \in 1..Len(SeedEntries) : x <= 3 \/ SeedEntries[x].rating.v > 50} }

SeedFiles == ShortFiles(MaxEntries) \cup LongFiles

\* the entries of the dataset file f
EntriesOf(f) ==
  CASE f.kind = "recipes" -> RecipeFile
    [] f.kind = "short" -> [i \in 1..Len(f.es) |-> SeedEntries[f.es[i]]]
    [] f.kind = "long" ->
         [i \in 1..f.n |-> IF i = f.j THEN SeedEntries[f.es[1]] ELSE PlainEntry]

\* require('./data/US_recipes_null.Pdf.json'): the entries of the file
recipeData == EntriesOf(dataFile)

\* the formatting loop over the entries from number i on; entries without a
\* title are skipped
RECURSIVE FormatLoop(_, _)
FormatLoop(data, i) ==
  IF i > Len(data) THEN <<>>
  ELSE (IF Falsy(data[i].title) THEN <<>> ELSE <<FormatRecipe(i, data[i])>>)
         \o FormatLoop(data, i + 1)

\* the formatting loop over the entries of each dataset file
FormattedFiles ==
  [f \in SeedFiles \cup {RecipeFileName} |-> FormatLoop(EntriesOf(f), 1)]

\* the array the seed script inserts from
formattedRecipes == FormattedFiles[dataFile]

\* BatchAt whose slice runs one record too far
BatchAtOneMore(i) ==
  SubSeq(formattedRecipes, i + 1, Min(i + batchSize + 1, Len(formattedRecipes)))

\* formattedRecipes.slice(i, i + batchSize)
BatchAt(i) ==
  SubSeq(formattedRecipes, i + 1, Min(i + batchSize, Len(formattedRecipes)))


(***************************************************************************)
(* Requests: the query-string parameters a client sends                    *)
(***************************************************************************)
PagingParams == {"page", "limit", "sortBy", "sortOrder"}
ListParams == PagingParams \cup
  {"q", "cuisine", "rating", "maxTotalTime", "prep_time", "cook_time", "total_time"}
SearchParams == PagingParams \cup
  {"title", "cuisine", "rating", "ratingOp", "calories", "caloriesOp",
   "total_time", "timeOp"}

SearchB1Params == PagingParams \cup
  {"q", "cuisine", "minRating", "maxPrepTime", "maxCookTime"}

Vals(p) ==
  CASE p = "page" -> {<<"2">>, <<"0">>, <<"-", "1">>, <<"x">>}
    [] p = "limit" -> {<<"2">>, <<"0">>, <<"-", "2">>, <<"x">>}
    [] p = "sortBy" -> {<<>>, <<"t", "o", "t", "a", "l", "_", "t", "i", "m", "e">>}
    [] p = "sortOrder" -> {AscStr, <<"A", "S", "C">>, <<"d", "e", "s", "c">>}
    [] p = "q" -> {<<"b">>, <<".">>, <<"(">>}
    [] p = "cuisine" -> {<<"B">>, <<"a", ".">>}
    [] p = "title" -> {<<"B">>, <<"(">>}
    [] p = "rating" -> {<<"4">>, NullStr, <<"x">>}
    [] p = "maxTotalTime" -> {<<"4">>, UndefinedStr}
    [] p = "prep_time" -> {<<"1">>, NullStr}
    [] p = "cook_time" -> {<<"2">>, <<"x">>}
    [] p = "total_time" -> {<<"3">>, <<"2", ".", "5">>, UndefinedStr}
    [] p = "ratingOp" -> {LteStr, EqStr, <<"g", "t">>}
    [] p = "calories" -> {<<"3", "5">>, <<"x">>}
    [] p = "caloriesOp" -> {LteStr, EqStr}
    [] p = "timeOp" -> {GteStr, EqStr}
    [] p = "minRating" -> {<<"4">>, <<"6">>, <<"0", ".", "5">>, <<"x">>}
    [] p = "maxPrepTime" -> {<<"1">>, <<"0">>, <<"x">>}
    [] p = "maxCookTime" -> {<<"2">>, <<"-", "1">>}

EmptyReq == [k \in {} |-> <<>>]

\* every way to give each parameter of S one of its values
RECURSIVE AssignAll(_)
AssignAll(S) ==
  IF S = {} THEN {EmptyReq}
  ELSE LET p == CHOOSE x \in S : TRUE
       IN {(p :> v) @@ f : v \in Vals(p), f \in AssignAll(S \ {p})}

RequestsOver(P) ==
  UNION {AssignAll(S) : S \in {T \in SUBSET P : Cardinality(T) <= MaxGiven}}

ListRequests == RequestsOver(ListParams)
SearchRequests == RequestsOver(SearchParams)
SearchB1Requests == RequestsOver(SearchB1Params)

Requests(e) ==
  CASE e = "list" -> ListRequests
    [] e = "search" -> SearchRequests
    [] e = "searchB1" -> SearchB1Requests

\* GET /api/recipes and the two versions of GET /api/recipes/search
Endpoints == {"list", "search", "searchB1"}

\* the filter the handler of endpoint e builds
QueryOf(e, r) ==
  CASE e = "list" -> ListQuery(r)
    [] e = "search" -> SearchQuery(r)
    [] e = "searchB1" -> SearchQueryB1(r)

NodeEnvs == {"development", "production"}

(***************************************************************************)
(* State machine                                                           *)
(***************************************************************************)
NoSort == [field |-> <<>>, dir |-> 0]
\* env: the value of process.env.NODE_ENV the catch block read
NoRes == [status |-> 0, success |-> "absent", page |-> 0, limit |-> 0,
          total |-> 0, data |-> <<>>, message |-> "", error |-> "", env |-> ""]

(***************************************************************************)
(* The page before its first effect has run                                *)
(***************************************************************************)
DescStr == <<"d", "e", "s", "c">>

\* AppContent's useState calls; rendered is what the last commit drew of the
\* table: "spinner", "empty" (No recipes found) or "table" (the rows with the
\* search form, the column filters, the sort labels and the pagination)
AppContent ==
  [isLoading |-> TRUE,
   recipes |-> <<>>,
   pagination |-> [page |-> 0, pageSize |-> 15, total |-> 0],
   searchParams |-> EmptyReq,
   sortBy |-> RatingStr,
   sortOrder |-> DescStr,
   rendered |-> "spinner"]

\* RecipeTable's useState calls
RecipeTable ==
  [searchTerm |-> <<>>,
   filters |-> [title |-> <<>>, cuisine |-> <<>>, rating |-> <<>>]]

\* no request sent yet: issued counts the calls of fetchRecipes, inFlight
\* holds the calls awaiting their answer, latest is the answer the last
\* issued call got
NoAnswer == [st |-> "none", data |-> <<>>, total |-> 0]
NoFetches == [issued |-> 0, inFlight |-> {}, latest |-> NoAnswer]

\* RecipeProvider's useState calls; timers counts the setTimeout callbacks
\* scheduled and not yet run
NoRecipe == 0
RecipeProvider == [selectedRecipe |-> NoRecipe, isDrawerOpen |-> FALSE, timers |-> 0]

\* the collection holds an earlier import, the seed script has not started
\* and no request is being handled
Started ==
  /\ db = OldRecipes
  /\ seedPc = "start"
  /\ seedI = 0
  /\ pc = "idle"
  /\ ep = "none"
  /\ req = EmptyReq
  /\ page = 0 /\ limit = 0 /\ skip = 0
  /\ sort = NoSort
  /\ query = EmptyQuery
  /\ recipes = Pending /\ total = Pending
  /\ res = NoRes
  /\ wrote = FALSE
  /\ app = AppContent
  /\ table = RecipeTable
  /\ fetches = NoFetches
  /\ drawer = RecipeProvider

Init == dataFile = RecipeFileName /\ Started

\* the seed script run on any of the dataset files
InitSeed == dataFile \in SeedFiles /\ Started

handlerVars == <<pc, ep, req, page, limit, skip, sort, query, recipes, total, res>>
seedVars == <<seedPc, seedI, dataFile>>
uiVars == <<app, table, fetches, drawer>>

\* getRecipes / searchRecipes up to the await: parse the paging and sort
\* parameters, build the filter, issue the two reads
Receive(e, r) ==
  /\ pc = "idle"
  /\ pc' = "reading"
  /\ ep' = e
  /\ req' = r
  /\ page' = PageOf(r)
  /\ limit' = LimitOf(r)
  /\ skip' = SkipOf(PageOf(r), LimitOf(r))
  /\ sort' = SortOf(r)
  /\ query' = QueryOf(e, r)
  /\ recipes' = Pending /\ total' = Pending
  /\ res' = NoRes
  /\ wrote' = FALSE
  /\ UNCHANGED <<uiVars, db, seedVars>>

\* the store answers the find
StoreFind ==
  /\ pc = "reading" /\ recipes.st = "pending"
  /\ recipes' \in FindOutcomes(db, query, sort, skip, limit)
  /\ UNCHANGED <<uiVars, db, seedVars, pc, ep, req, page, limit, skip, sort, query, total, res, wrote>>

\* the store answers the count
StoreCount ==
  /\ pc = "reading" /\ total.st = "pending"
  /\ total' \in CountOutcomes(db, query)
  /\ UNCHANGED <<uiVars, db, seedVars, pc, ep, req, page, limit, skip, sort, query, recipes, res, wrote>>

\* both reads resolved: res.status(200).json(...)
RespondOk ==
  /\ pc = "reading" /\ recipes.st = "ok" /\ total.st = "ok"
  /\ res' = [status |-> 200,
             success |-> IF ep = "list" THEN "true" ELSE "absent",
             page |-> page, limit |-> limit, total |-> total.n,
             data |-> recipes.docs, message |-> "", error |-> "", env |-> ""]
  /\ pc' = "done"
  /\ UNCHANGED <<uiVars, db, seedVars, ep, req, page, limit, skip, sort, query, recipes, total, wrote>>

\* RespondError that sends the failure's message whatever NODE_ENV is
RespondErrorLeaking ==
  /\ pc = "reading" /\ (recipes.st = "failed" \/ total.st = "failed")
  /\ \E env \in NodeEnvs :
       res' = [status |-> 500, success |-> "false", page |-> 0, limit |-> 0,
               total |-> 0, data |-> <<>>,
               message |-> IF ep = "list" THEN "Server error while fetching recipes"
                           ELSE "Server error while searching recipes",
               error |-> "error.message",
               env |-> env]
  /\ pc' = "done"
  /\ UNCHANGED <<uiVars, db, seedVars, ep, req, page, limit, skip, sort, query, recipes, total, wrote>>

\* a read rejected: the catch block, res.status(500).json(...)
RespondError ==
  /\ pc = "reading" /\ (recipes.st = "failed" \/ total.st = "failed")
  /\ \E env \in NodeEnvs :
       res' = [status |-> 500, success |-> "false", page |-> 0, limit |-> 0,
               total |-> 0, data |-> <<>>,
               message |-> IF ep = "list" THEN "Server error while fetching recipes"
                           ELSE "Server error while searching recipes",
               error |-> IF env = "development" THEN "error.message" ELSE "{}",
               env |-> env]
  /\ pc' = "done"
  /\ UNCHANGED <<uiVars, db, seedVars, ep, req, page, limit, skip, sort, query, recipes, total, wrote>>

\* Return that keeps the handler's variables for the next request
ReturnKeepingLocals ==
  /\ pc = "done"
  /\ pc' = "idle"
  /\ UNCHANGED <<uiVars, db, seedVars, ep, req, page, limit, skip, sort, query, recipes,
                 total, res, wrote>>

\* the handler has returned; its locals are gone
Return ==
  /\ pc = "done"
  /\ pc' = "idle"
  /\ ep' = "none"
  /\ req' = EmptyReq
  /\ page' = 0 /\ limit' = 0 /\ skip' = 0
  /\ sort' = NoSort
  /\ query' = EmptyQuery
  /\ recipes' = Pending /\ total' = Pending
  /\ res' = NoRes
  /\ wrote' = FALSE
  /\ UNCHANGED <<uiVars, db, seedVars>>

\* a request has been received and its handler frame is still observed
InFlight == pc # "idle"

\* position of the seed script once i records are handed to the store: the
\* batch loop ends and the script exits in the same turn as the await resumes
SeedPcAt(i) == IF i < Len(formattedRecipes) THEN "insert" ELSE "exited"

\* SeedDeleteMany that leaves the collection as it is
SeedDeleteManyKeepingOld ==
  /\ seedPc = "start"
  /\ db' = db
  /\ seedI' = 0
  /\ seedPc' = SeedPcAt(0)
  /\ wrote' = (wrote \/ InFlight)
  /\ UNCHANGED <<uiVars, handlerVars, dataFile>>

\* seed script: await Recipe.deleteMany({})
SeedDeleteMany ==
  /\ seedPc = "start"
  /\ db' = <<>>
  /\ seedI' = 0
  /\ seedPc' = SeedPcAt(0)
  /\ wrote' = (wrote \/ InFlight)
  /\ UNCHANGED <<uiVars, handlerVars, dataFile>>

\* seed script: one turn of the batch loop, await Recipe.insertMany(batch).
\* insertMany validates every record of the batch first and rejects, storing
\* none of them, when one fails; the catch block then exits with code 1.
SeedInsertMany ==
  /\ seedPc = "insert"
  /\ LET batch == BatchAt(seedI)
     IN IF \A j \in 1..Len(batch) : Valid(batch[j])
          THEN /\ db' = db \o ToDocs(batch)
               /\ seedI' = seedI + batchSize
               /\ seedPc' = SeedPcAt(seedI + batchSize)
          ELSE /\ db' = db
               /\ seedI' = seedI
               /\ seedPc' = "failed"
  /\ wrote' = (wrote \/ InFlight)
  /\ UNCHANGED <<uiVars, handlerVars, dataFile>>

\* how many records of a batch of n the store has written when it fails:
\* none, the first one, or all of them
WrittenBeforeFailure(n) == {0, 1, n} \cap 0..n

\* seed script: await Recipe.insertMany(batch) rejects because the store
\* fails while it writes a batch that passed validation. The insert is
\* ordered and not atomic: the records written before the failure stay in
\* the collection (all of them when only the acknowledgement is lost); the
\* catch block exits with code 1.
SeedInsertManyFails ==
  /\ seedPc = "insert"
  /\ LET batch == BatchAt(seedI)
     IN IF \A j \in 1..Len(batch) : Valid(batch[j])
          THEN \E k \in WrittenBeforeFailure(Len(batch)) :
                 db' = db \o ToDocs(SubSeq(batch, 1, k))
          ELSE FALSE
  /\ seedI' = seedI
  /\ seedPc' = "failed"
  /\ wrote' = (wrote \/ InFlight)
  /\ UNCHANGED <<uiVars, handlerVars, dataFile>>

\* the seed script runs beside the request handlers on a store that accepts
\* its writes
Next ==
  \/ (pc = "idle" /\ \E e \in Endpoints : \E r \in Requests(e) : Receive(e, r))
  \/ StoreFind
  \/ StoreCount
  \/ RespondOk
  \/ RespondError
  \/ Return
  \/ SeedDeleteMany
  \/ SeedInsertMany

Spec == Init /\ [][Next]_vars

\* the seed script alone, run on any of the dataset files, on a store that
\* can fail during an insert
NextSeed ==
  \/ SeedDeleteMany
  \/ SeedInsertMany
  \/ SeedInsertManyFails

SeedSpec == InitSeed /\ [][NextSeed]_vars

\* the request handlers alone, on the collection the earlier import left
NextServe ==
  \/ (pc = "idle" /\ \E e \in Endpoints : \E r \in Requests(e) : Receive(e, r))
  \/ StoreFind
  \/ StoreCount
  \/ RespondOk
  \/ RespondError
  \/ Return

\* the store settles every read it was handed and the handler runs once
\* Promise.all settles
FairSpec ==
  /\ Init /\ [][NextServe]_vars
  /\ WF_vars(StoreFind) /\ WF_vars(StoreCount)
  /\ WF_vars(RespondOk) /\ WF_vars(RespondError)

\* parameters the list endpoint does not read: the title the page's table
\* sends, and parameters of the search endpoints
OtherParams == {"title", "minRating", "maxPrepTime", "calories"}

\* requests to the list endpoint that give at most one of its parameters
\* and some of the others
ListRequestsWithOthers ==
  {o @@ r : r \in {EmptyReq} \cup UNION {AssignAll({p}) : p \in ListParams},
            o \in RequestsOver(OtherParams)}

\* the list endpoint alone, asked with parameters it does not read
NextList ==
  \/ (pc = "idle" /\ \E r \in ListRequestsWithOthers : Receive("list", r))
  \/ StoreFind
  \/ StoreCount
  \/ RespondOk
  \/ RespondError
  \/ Return

ListSpec == Init /\ [][NextList]_vars

(***************************************************************************)
(* The page: AppContent, RecipeTable, RecipeProvider                       *)
(***************************************************************************)
backendVars == <<db, seedVars, handlerVars, wrote>>

\* {...a, ...b}: the keys of b win
Spread(a, b) == b @@ a

\* the updater handleSearch hands to setSearchParams: the entries of params
\* whose value is not '' are spread last (the page passes strings only, never
\* null or undefined), and q is deleted when params.q is ''
NewSearchParams(prev, params) ==
  LET entries == [k \in {x \in DOMAIN params : params[x] # <<>>} |-> params[k]]
      newParams == Spread(Spread(prev, params), entries)
  IN IF "q" \in DOMAIN params /\ params["q"] = <<>>
       THEN [k \in DOMAIN newParams \ {"q"} |-> newParams[k]]
       ELSE newParams

\* the params object fetchRecipes builds
FetchParams(a) ==
  Spread([page |-> NatStr(a.pagination.page + 1),
          limit |-> NatStr(a.pagination.pageSize),
          sortBy |-> a.sortBy,
          sortOrder |-> a.sortOrder],
         a.searchParams)

\* getRecipes of the API client: page and limit default to 1 and 15, the
\* parameters go to the list endpoint as the query string
getRecipes(params) ==
  Spread([page |-> <<"1">>, limit |-> <<"1", "5">>], params)

\* the dependencies of fetchRecipes that are compared by value
FetchDeps(a) ==
  <<a.pagination.page, a.pagination.pageSize, a.sortBy, a.sortOrder>>

\* what RecipeTable returns for the state a
View(a) ==
  IF a.isLoading THEN "spinner"
  ELSE IF a.recipes = <<>> THEN "empty"
  ELSE "table"

\* fetchRecipes up to its await, run on the state a: setIsLoading(true) and
\* the request sent
fetchRecipes(a) ==
  /\ fetches.issued < MaxFetches
  /\ app' = [a EXCEPT !.isLoading = TRUE]
  /\ fetches' = [issued |-> fetches.issued + 1,
                 inFlight |-> fetches.inFlight \cup
                                {[id |-> fetches.issued + 1,
                                  params |-> getRecipes(FetchParams(a))]},
                 latest |-> NoAnswer]

\* the commit of a handler's state updates and the effect after it:
\* fetchRecipes is a new function, and the effect runs it, when one of its
\* dependencies changed (searchParams is a new object after each handleSearch)
Commit(a, newSearchParams) ==
  IF newSearchParams \/ FetchDeps(a) # FetchDeps(app)
    THEN fetchRecipes(a)
    ELSE app' = a /\ UNCHANGED fetches

\* the effect of the first render
Mount ==
  /\ fetches.issued = 0
  /\ fetchRecipes(app)
  /\ UNCHANGED <<table, drawer, backendVars>>

\* AppContent.handleSearch
handleSearch(params) ==
  Commit([app EXCEPT !.searchParams = NewSearchParams(@, params),
                     !.pagination.page = 0], TRUE)

\* AppContent.handleSort
handleSort(property) ==
  LET isAsc == app.sortBy = property /\ app.sortOrder = AscStr
  IN Commit([app EXCEPT !.sortOrder = IF isAsc THEN DescStr ELSE AscStr,
                        !.sortBy = property], FALSE)

\* AppContent.handlePageChange
handlePageChange(newPage) ==
  Commit([app EXCEPT !.pagination.page = newPage], FALSE)

\* handlePageSizeChange that stays on the current page
handlePageSizeChangeKeepingPage(newPageSize) ==
  Commit([app EXCEPT !.pagination.pageSize = newPageSize], FALSE)

\* AppContent.handlePageSizeChange
handlePageSizeChange(newPageSize) ==
  Commit([app EXCEPT !.pagination.pageSize = newPageSize,
                     !.pagination.page = 0], FALSE)

\* the handlers can be reached while the last commit drew the table
TableDrawn == app.rendered = "table"

\* typing in the search box
setSearchTerm(v) ==
  /\ TableDrawn
  /\ table.searchTerm # v
  /\ table' = [table EXCEPT !.searchTerm = v]
  /\ UNCHANGED <<app, fetches, drawer, backendVars>>

\* RecipeTable.handleSearch: the search form is submitted
submitSearch ==
  /\ TableDrawn
  /\ handleSearch(Spread([q |-> table.searchTerm], table.filters))
  /\ UNCHANGED <<table, drawer, backendVars>>

\* the clear button of the search box
clearSearch ==
  /\ TableDrawn
  /\ table.searchTerm # <<>>
  /\ table' = [table EXCEPT !.searchTerm = <<>>]
  /\ handleSearch([q |-> <<>>])
  /\ UNCHANGED <<drawer, backendVars>>

\* RecipeTable.handleFilterChange(field): a column filter is edited
handleFilterChange(field, value) ==
  /\ TableDrawn
  /\ table.filters[field] # value
  /\ LET newFilters == [table.filters EXCEPT ![field] = value]
     IN /\ table' = [table EXCEPT !.filters = newFilters]
        /\ handleSearch(newFilters)
  /\ UNCHANGED <<drawer, backendVars>>

\* a sort label is clicked
onSort(property) ==
  /\ TableDrawn
  /\ handleSort(property)
  /\ UNCHANGED <<table, drawer, backendVars>>

\* a pagination arrow is clicked
onPageChange(newPage) ==
  /\ TableDrawn
  /\ newPage # app.pagination.page
  /\ handlePageChange(newPage)
  /\ UNCHANGED <<table, drawer, backendVars>>

\* another rows-per-page option is chosen
onPageSizeChange(newPageSize) ==
  /\ TableDrawn
  /\ newPageSize # app.pagination.pageSize
  /\ handlePageSizeChange(newPageSize)
  /\ UNCHANGED <<table, drawer, backendVars>>

\* the answers the list endpoint can give to the parameters r
ListAnswers(coll, r) ==
  LET q == QueryOf("list", r)
      lim == LimitOf(r)
      sk == SkipOf(PageOf(r), lim)
  IN {[st |-> "ok", data |-> f.docs, total |-> c.n] :
        f \in {x \in FindOutcomes(coll, q, SortOf(r), sk, lim) : x.st = "ok"},
        c \in {x \in CountOutcomes(coll, q) : x.st = "ok"}}

\* the request f is answered with ans
Settled(f, ans) ==
  [fetches EXCEPT !.inFlight = @ \ {f},
                  !.latest = IF f.id = fetches.issued THEN ans ELSE @]

\* fetchRecipes after its await: the answer arrived
Resolve ==
  /\ \E f \in fetches.inFlight : \E ans \in ListAnswers(db, f.params) :
       /\ app' = [app EXCEPT !.recipes = ans.data,
                             !.pagination.total = ans.total,
                             !.isLoading = FALSE]
       /\ fetches' = Settled(f, ans)
  /\ UNCHANGED <<table, drawer, backendVars>>

\* fetchRecipes after its await: the request failed (no answer, or a 500);
\* the catch block logs, the finally block clears isLoading
Reject ==
  /\ \E f \in fetches.inFlight :
       /\ app' = [app EXCEPT !.isLoading = FALSE]
       /\ fetches' = Settled(f, [NoAnswer EXCEPT !.st = "failed"])
  /\ UNCHANGED <<table, drawer, backendVars>>

\* the commit of the updates made outside an event handler (by the effect
\* and after the await): RecipeTable is drawn again
Render ==
  /\ app.rendered # View(app)
  /\ app' = [app EXCEPT !.rendered = View(app)]
  /\ UNCHANGED <<table, fetches, drawer, backendVars>>

\* RecipeProvider.openRecipeDetails: a row of the table is clicked; the
\* open drawer is modal and covers the table
openRecipeDetails(recipe) ==
  /\ TableDrawn
  /\ ~drawer.isDrawerOpen
  /\ drawer' = [drawer EXCEPT !.selectedRecipe = recipe, !.isDrawerOpen = TRUE]
  /\ UNCHANGED <<app, table, fetches, backendVars>>

\* RecipeProvider.closeRecipeDetails: the drawer's onClose or its close button
closeRecipeDetails ==
  /\ drawer.isDrawerOpen
  /\ drawer.timers < MaxTimers
  /\ drawer' = [drawer EXCEPT !.isDrawerOpen = FALSE, !.timers = @ + 1]
  /\ UNCHANGED <<app, table, fetches, backendVars>>

\* a callback closeRecipeDetails scheduled runs: setSelectedRecipe(null)
clearSelectedRecipe ==
  /\ drawer.timers > 0
  /\ drawer' = [drawer EXCEPT !.selectedRecipe = NoRecipe, !.timers = @ - 1]
  /\ UNCHANGED <<app, table, fetches, backendVars>>

\* what the user can type or pick
FilterValues(field) ==
  CASE field = "title" -> {<<>>, <<"a">>}
    [] field = "cuisine" -> {<<>>, <<"a">>}
    [] field = "rating" -> {<<>>, <<"5">>}
SortColumns == {RatingStr, <<"t", "i", "t", "l", "e">>}
Pages == {0, 1}
rowsPerPageOptions == {15, 25, 50}
Rows == {app.recipes[i].id : i \in 1..Len(app.recipes)}

NextUi ==
  \/ Mount
  \/ \E v \in {<<>>, <<"b">>} : setSearchTerm(v)
  \/ submitSearch
  \/ clearSearch
  \/ \E field \in DOMAIN table.filters : \E value \in FilterValues(field) :
       handleFilterChange(field, value)
  \/ \E property \in SortColumns : onSort(property)
  \/ \E newPage \in Pages : onPageChange(newPage)
  \/ \E newPageSize \in rowsPerPageOptions : onPageSizeChange(newPageSize)
  \/ Resolve
  \/ Reject
  \/ Render

\* the page's table, on the collection the earlier import left
UiSpec == Init /\ [][NextUi]_vars

\* the page is loaded and sorted and its rows are opened in the drawer
NextDrawer ==
  \/ Mount
  \/ \E property \in SortColumns : onSort(property)
  \/ Resolve
  \/ Reject
  \/ Render
  \/ \E recipe \in Rows : openRecipeDetails(recipe)
  \/ closeRecipeDetails
  \/ clearSelectedRecipe

DrawerSpec == Init /\ [][NextDrawer]_vars

(***************************************************************************)
(* Properties                                                              *)
(***************************************************************************)
\* s occurs in text as a literal substring, ignoring letter case
Contains(text, s) ==
  \E i \in 0..(Len(text) - Len(s)) :
    \A j \in 1..Len(s) : LowerChar(s[j]) = LowerChar(text[i + j])

\* q without its predicate on key k
Without(q, k) == [x \in DOMAIN q \ {k} |-> q[x]]

\* the raw parameter p of the request parses to a number
ParsesFloat(p) == Given(req, p) /\ ~parseFloat(req[p]).nan
ParsesInt(p) == Given(req, p) /\ ~parseInt(req[p]).nan

\* a 200 response to a request that no write overlapped
Answered == pc = "done" /\ res.status = 200 /\ ~wrote

\* C1: in the list endpoint a rating parameter that parses to r selects
\* exactly the records with rating >= r (among those the other predicates
\* of the filter keep).
C1_RatingIsThreshold ==
  (Answered /\ ep = "list" /\ ParsesFloat("rating")) =>
    LET r == parseFloat(req["rating"]).v
        sel == {i \in 1..Len(db) :
                  db[i].rating >= r /\ Matches(db[i], Without(query, "rating"))}
    IN /\ res.total = Cardinality(sel)
       /\ \A k \in 1..Len(res.data) : res.data[k].rating >= r

NumericParamsOf(f) ==
  IF f = "total_time" THEN {"total_time", "maxTotalTime"} ELSE {f}

Unparsable(p) ==
  Given(req, p) /\ (IF p = "maxTotalTime" THEN parseInt(req[p]).nan
                    ELSE parseFloat(req[p]).nan)

\* C3: in the list endpoint, when the numeric parameters given for a field
\* (rating, prep_time, cook_time, total_time, maxTotalTime) do not parse as
\* numbers, the filter holds no predicate at all on that field.
C3_UnparsableIsDropped ==
  (pc # "idle" /\ ep = "list") =>
    \A f \in {"rating", "prep_time", "cook_time", "total_time"} :
      ( /\ \E p \in NumericParamsOf(f) : Given(req, p)
        /\ \A p \in NumericParamsOf(f) : Given(req, p) => Unparsable(p) )
      => f \notin DOMAIN query

\* the integer the page (limit) parameter parses to
ParsedPage == parseInt(req["page"]).v
ParsedLimit == parseInt(req["limit"]).v

\* the find has been handed to the store
FindIssued == recipes.st # "pending"

\* C4 as stated: a page parameter of 0 or of a negative integer is used as
\* it is, so the offset (page - 1) * limit is negative and is handed to the
\* store unchanged.
C4_NonPositivePageKept ==
  (pc # "idle" /\ ParsesInt("page") /\ ParsedPage <= 0) =>
    /\ page = ParsedPage
    /\ skip = (ParsedPage - 1) * limit
    /\ skip < 0
    /\ (FindIssued => recipes.skip = skip)

\* C4 amended: a negative page parameter is used as it is and the offset
\* (page - 1) * limit, negative whenever limit is positive, is handed to the
\* store unchanged; a page parameter of 0 gives page 1 and offset 0.
C4_NegativePageKept ==
  (pc # "idle" /\ ParsesInt("page")) =>
    /\ ParsedPage < 0 =>
         /\ page = ParsedPage
         /\ skip = (ParsedPage - 1) * limit
         /\ (limit > 0 => skip < 0)
         /\ (FindIssued => recipes.skip = (ParsedPage - 1) * limit)
    /\ ParsedPage = 0 =>
         /\ page = 1
         /\ skip = 0
         /\ (FindIssued => recipes.skip = 0)

\* C4 witness: a negative page was parsed and the store was handed the
\* negative offset
C4_Witness ==
  /\ pc = "done" /\ ParsesInt("page") /\ ParsedPage < 0
  /\ FindIssued /\ recipes.skip < 0 /\ recipes.skip = (ParsedPage - 1) * limit

\* C5 as stated: page is the integer parsed from the page parameter, or 1
\* when it is absent or unparsable; limit likewise with 10; the records
\* skipped are (page - 1) * limit; a 200 response echoes page and limit.
C5_PagingParsedOrDefault ==
  pc # "idle" =>
    /\ page = (IF ParsesInt("page") THEN ParsedPage ELSE 1)
    /\ limit = (IF ParsesInt("limit") THEN ParsedLimit ELSE 10)
    /\ skip = (page - 1) * limit
    /\ (FindIssued => recipes.skip = skip /\ recipes.limit = limit)
    /\ (pc = "done" /\ res.status = 200 => res.page = page /\ res.limit = limit)

\* C5 amended: as stated, except that a parameter that parses to 0 also
\* gives the default (page 1, limit 10).
C5_PagingParsedNonZeroOrDefault ==
  pc # "idle" =>
    /\ page = (IF ParsesInt("page") /\ ParsedPage # 0 THEN ParsedPage ELSE 1)
    /\ limit = (IF ParsesInt("limit") /\ ParsedLimit # 0 THEN ParsedLimit ELSE 10)
    /\ skip = (page - 1) * limit
    /\ (FindIssued => recipes.skip = skip /\ recipes.limit = limit)
    /\ (pc = "done" /\ res.status = 200 => res.page = page /\ res.limit = limit)

\* C5 witness: page and limit were both given and parsed, and a 200
\* response echoes them after skipping (page - 1) * limit records
C5_Witness ==
  /\ pc = "done" /\ res.status = 200
  /\ ParsesInt("page") /\ ParsesInt("limit")
  /\ res.page = 2 /\ res.limit = 2 /\ recipes.skip = 2

\* the records at positions (pg-1)*lim+1 .. pg*lim of the order ord
PageOfOrder(ord, pg, lim) ==
  LET first == (pg - 1) * lim + 1
      last == IF pg * lim <= Len(ord) THEN pg * lim ELSE Len(ord)
  IN [k \in 1..(IF last >= first THEN last - first + 1 ELSE 0) |-> ord[first + k - 1]]

\* C6: for page >= 1 and limit >= 1, with no write overlapping the request,
\* data is exactly the records at positions (page-1)*limit+1 .. page*limit
\* of the matching records in sort order, so it holds at most limit records.
C6_DataIsPageOfSortedMatches ==
  (Answered /\ page >= 1 /\ limit >= 1) =>
    /\ Len(res.data) <= limit
    /\ \E ord \in SortedOrders(db, query, sort) :
         res.data = PageOfOrder(ord, page, limit)

\* C6 witness: page 2 with limit 2 over four matching records returns the
\* records ranked 3 and 4
C6_Witness ==
  /\ Answered /\ page = 2 /\ limit = 2
  /\ Cardinality(MatchingIdx(db, query)) = 4
  /\ Len(res.data) = 2
  /\ res.data[1].rating >= res.data[2].rating

\* the request without its page and limit parameters
FilterParamsOnly == [p \in DOMAIN req \ {"page", "limit"} |-> req[p]]

\* C7: with no write overlapping the request, total is the number of
\* records matching the built filter, and it is the total of the same
\* request without page and limit.
C7_TotalIsMatchCount ==
  Answered =>
    /\ res.total = Cardinality({i \in 1..Len(db) : Matches(db[i], query)})
    /\ res.total =
         Cardinality(MatchingIdx(db, QueryOf(ep, FilterParamsOnly)))

\* C7 witness: a filtered second page whose total exceeds the page length
C7_Witness ==
  /\ Answered /\ Given(req, "page") /\ Given(req, "limit")
  /\ res.total = 4 /\ Len(res.data) = 2

\* the response data follows the sort on a numeric field
DataOrdered ==
  LET f == FieldOfStr(sort.field)
  IN f \in NumberPaths =>
       \A k \in 1..(Len(res.data) - 1) :
         IF sort.dir = 1 THEN res.data[k][f] <= res.data[k + 1][f]
         ELSE res.data[k][f] >= res.data[k + 1][f]

\* C8: the sort is one field and direction: sortBy, or "rating" when sortBy
\* is absent or empty; ascending only when sortOrder is exactly "asc",
\* descending for every other value.
C8_SortFieldAndDirection ==
  pc # "idle" =>
    /\ sort.field = (IF Given(req, "sortBy") /\ Len(req["sortBy"]) > 0
                       THEN req["sortBy"] ELSE <<"r", "a", "t", "i", "n", "g">>)
    /\ sort.dir = (IF Given(req, "sortOrder") /\ req["sortOrder"] = <<"a", "s", "c">>
                     THEN 1 ELSE -1)
    /\ (pc = "done" /\ res.status = 200 => DataOrdered)

\* C8 witness: sortOrder "ASC" is answered in descending order of rating
C8_Witness ==
  /\ pc = "done" /\ res.status = 200
  /\ Given(req, "sortOrder") /\ req["sortOrder"] = <<"A", "S", "C">>
  /\ ~Given(req, "sortBy")
  /\ Len(res.data) >= 2 /\ res.data[1].rating > res.data[Len(res.data)].rating

\* C9: a record satisfies a substring predicate of the filter exactly when
\* the field's text contains the given string literally, ignoring case,
\* and no such string makes the store refuse the request.
C9_SubstringIsLiteral ==
  pc # "idle" =>
    \A k \in DOMAIN query :
      query[k].op \in {"regex", "or"} =>
        /\ ~QueryRejected(query)
        /\ \A i \in 1..Len(db) :
             MatchPred(db[i], k, query[k]) <=>
               IF query[k].op = "or"
                 THEN \E n \in 1..Len(query[k].fields) :
                        Contains(db[i][query[k].fields[n]], query[k].s)
                 ELSE Contains(db[i][k], query[k].s)

\* C10: in the list endpoint a non-empty q keeps exactly the records in
\* which q occurs, ignoring case, in the title or the cuisine or the
\* description, and which satisfy every other predicate of the filter.
C10_QIsDisjunction ==
  (Answered /\ ep = "list" /\ Truthy(req, "q")) =>
    LET occurs(d) == \/ Contains(d.title, req["q"])
                     \/ Contains(d.cuisine, req["q"])
                     \/ Contains(d.description, req["q"])
        sel == {i \in 1..Len(db) :
                  occurs(db[i]) /\ Matches(db[i], Without(query, "$or"))}
    IN /\ res.total = Cardinality(sel)
       /\ \A k \in 1..Len(res.data) : occurs(res.data[k])

\* C11: in the earlier search (q, cuisine, minRating, maxPrepTime,
\* maxCookTime), minRating writes the predicate rating >= v exactly when it
\* parses to a number v with 1 <= v <= 5, and maxPrepTime (maxCookTime) writes
\* prep_time <= v (cook_time <= v) exactly when it parses to an integer
\* v > 0; otherwise the filter holds no predicate on that field.
C11_B1FiltersValidated ==
  (pc # "idle" /\ ep = "searchB1") =>
    /\ IF ParsesFloat("minRating") /\ parseFloat(req["minRating"]).v >= 10
                                   /\ parseFloat(req["minRating"]).v <= 50
         THEN /\ "rating" \in DOMAIN query
              /\ query["rating"] = Cmp("gte", parseFloat(req["minRating"]))
              /\ (Answered => \A k \in 1..Len(res.data) :
                                res.data[k].rating >= parseFloat(req["minRating"]).v)
         ELSE "rating" \notin DOMAIN query
    /\ \A f \in {<<"maxPrepTime", "prep_time">>, <<"maxCookTime", "cook_time">>} :
         IF ParsesInt(f[1]) /\ parseInt(req[f[1]]).v > 0
           THEN /\ f[2] \in DOMAIN query
                /\ query[f[2]] = Cmp("lte", IntNumber(parseInt(req[f[1]])))
                /\ (Answered => \A k \in 1..Len(res.data) :
                                  res.data[k][f[2]] <= 10 * parseInt(req[f[1]]).v)
           ELSE f[2] \notin DOMAIN query

\* C11 witness: an answered search with minRating = 6, which writes no
\* rating predicate, and a maxPrepTime that parses to a positive integer,
\* which does
C11_Witness ==
  /\ Answered /\ ep = "searchB1"
  /\ ParsesFloat("minRating") /\ parseFloat(req["minRating"]).v > 50
  /\ "rating" \notin DOMAIN query
  /\ ParsesInt("maxPrepTime") /\ "prep_time" \in DOMAIN query
  /\ Len(res.data) > 0

\* the value parameter, operator parameter, filter key and default operator of
\* the three "Filter by ..." blocks of searchRecipes
OperatorBlocks ==
  { <<"rating", "ratingOp", "rating", "gte">>,
    <<"calories", "caloriesOp", "nutrients.calories", "gte">>,
    <<"total_time", "timeOp", "total_time", "lte">> }

\* C12: in searchRecipes, when rating, calories or total_time is given with a
\* value that parses and its operator parameter is omitted, the comparison
\* written is >= for rating and calories and <= for total_time.
C12_DefaultOperators ==
  (pc # "idle" /\ ep = "search") =>
    /\ \A b \in OperatorBlocks :
         (ParsesFloat(b[1]) /\ ~Given(req, b[2])) =>
           /\ b[3] \in DOMAIN query
           /\ query[b[3]].op = b[4]
           /\ query[b[3]].v = parseFloat(req[b[1]]).v
    /\ (Answered /\ ParsesFloat("rating") /\ ~Given(req, "ratingOp")) =>
         \A k \in 1..Len(res.data) : res.data[k].rating >= parseFloat(req["rating"]).v
    /\ (Answered /\ ParsesFloat("total_time") /\ ~Given(req, "timeOp")) =>
         \A k \in 1..Len(res.data) :
           res.data[k].total_time <= parseFloat(req["total_time"]).v

\* C12 witness: an answered search with rating and total_time given and no
\* operator parameter, filtered by rating >= and total_time <=
C12_Witness ==
  /\ Answered /\ ep = "search"
  /\ ParsesFloat("rating") /\ ~Given(req, "ratingOp")
  /\ ParsesFloat("total_time") /\ ~Given(req, "timeOp")
  /\ query["rating"].op = "gte" /\ query["total_time"].op = "lte"
  /\ Len(res.data) > 0 /\ res.total < Len(db)

\* the number a record holds in the field a search parameter names; the
\* calories text ("35", "20k") read as the number it starts with
FieldNumber(doc, p) ==
  IF p = "calories" THEN parseFloat(doc.calories) ELSE Number(doc[p])

\* the comparison an operator parameter names
Compares(op, x, v) ==
  CASE op = GteStr -> ~x.nan /\ x.v >= v
    [] op = LteStr -> ~x.nan /\ x.v <= v
    [] op = EqStr -> ~x.nan /\ x.v = v

\* C13: in searchRecipes, for rating, calories and total_time given with a
\* value that parses to v, operator 'gte' keeps exactly the records whose
\* field is >= v, 'lte' exactly those <= v and 'eq' exactly those = v (among
\* the records the other predicates keep); a value that does not parse
\* writes no predicate.
C13_OperatorsCompareNumbers ==
  (pc # "idle" /\ ep = "search") =>
    \A b \in OperatorBlocks :
      IF ParsesFloat(b[1])
        THEN (Answered /\ Given(req, b[2]) /\ req[b[2]] \in {GteStr, LteStr, EqStr}) =>
               LET v == parseFloat(req[b[1]]).v
                   sel == {i \in 1..Len(db) :
                             /\ Compares(req[b[2]], FieldNumber(db[i], b[1]), v)
                             /\ Matches(db[i], Without(query, b[3]))}
               IN /\ res.total = Cardinality(sel)
                  /\ \A k \in 1..Len(res.data) :
                       Compares(req[b[2]], FieldNumber(res.data[k], b[1]), v)
        ELSE b[3] \notin DOMAIN query

\* the response a handler sends once both reads have settled or one failed
ResponseSent ==
  pc = "done" =>
    /\ res.status \in {200, 500}
    /\ (res.status = 200) = (recipes.st = "ok" /\ total.st = "ok")
    /\ (res.status = 500) = (recipes.st = "failed" \/ total.st = "failed")
    /\ res.status = 200 =>
         /\ res.page = PageOf(req) /\ res.limit = LimitOf(req)
         /\ res.total = total.n /\ res.data = recipes.docs
         /\ res.message = "" /\ res.error = ""
    /\ res.status = 500 =>
         /\ res.success = "false" /\ res.message # ""
         /\ res.error = IF res.env = "development" THEN "error.message" ELSE "{}"

ResponseFromRequestAndCollection ==
  Answered =>
    LET q == QueryOf(ep, req)
        pg == PageOf(req)
        lim == LimitOf(req)
    IN /\ res.page = pg /\ res.limit = lim
       /\ res.total = Cardinality(MatchingIdx(db, q))
       /\ \E ord \in SortedOrders(db, q, SortOf(req)) :
            res.data = Window(ord, SkipOf(pg, lim), lim)

\* nothing of a handled request is left once its handler has returned
NothingKept ==
  pc = "idle" =>
    /\ ep = "none" /\ req = EmptyReq
    /\ page = 0 /\ limit = 0 /\ skip = 0 /\ sort = NoSort /\ query = EmptyQuery
    /\ recipes = Pending /\ total = Pending /\ res = NoRes

\* C15: handling list and search requests, succeeding or failing, leaves the
\* collection unchanged and keeps no state from one request to the next: the
\* response depends only on the request's own parameters and the collection.
C15_ReadOnlyAndStateless ==
  /\ [][handlerVars' # handlerVars => db' = db]_vars
  /\ [](NothingKept /\ ResponseFromRequestAndCollection)

\* C15 witness: a request with a filter has been answered from the collection
\* the previous import left, and that collection is still as it was
C15_Witness ==
  /\ Answered /\ DOMAIN query # {} /\ Len(res.data) > 0
  /\ seedPc = "start" /\ db = OldRecipes

\* C16: the page fetch and the count are two separate reads with no ordering
\* or transaction between them: a 200 response can carry a total that differs
\* from the number of matching records in the collection state the data was
\* read from (non-empty data with total 0), and it does so only when a write
\* of the seed script took effect while the request was in flight.
C16_TotalCanDisagreeWithData ==
  (pc = "done" /\ res.status = 200) =>
    /\ res.data = recipes.docs /\ res.total = total.n
    /\ Len(res.data) <= recipes.n
    /\ (res.total # recipes.n => wrote)

\* C16 witness: the find read the old records, the seed script deleted them
\* before the count, and the response pairs non-empty data with total 0
C16_Witness ==
  /\ pc = "done" /\ res.status = 200
  /\ Len(res.data) > 0 /\ res.total = 0 /\ recipes.n > 0
  /\ wrote /\ db = <<>>

\* the records the import stores when every record passes validation
NewDocs == ToDocs(formattedRecipes)

\* the records of coll built from entry number i of the dataset
DocsOfEntry(coll, i) == {j \in 1..Len(coll) : coll[j].id = i}

\* no record of the earlier import is left in the collection
NoOldRecipes ==
  \A j \in 1..Len(db) : \A o \in 1..Len(OldRecipes) : db[j].id # OldRecipes[o].id

\* after a successful run the collection is the dataset's titled entries, one
\* record each, in dataset order
SeededFromDataset ==
  seedPc = "exited" =>
    /\ db = NewDocs
    /\ NoOldRecipes
    /\ \A i \in 1..Len(recipeData) :
         Cardinality(DocsOfEntry(db, i)) = IF Falsy(recipeData[i].title) THEN 0 ELSE 1
    /\ \A j \in 1..Len(db) : db[j].id \in 1..Len(recipeData)
    /\ \A j \in 1..(Len(db) - 1) : db[j].id < db[j + 1].id

\* C17: after a seed run that exits successfully the collection holds exactly
\* one record per dataset entry that has a title and none of the records
\* present before; the new records are inserted in dataset order in
\* consecutive, non-overlapping batches of at most 50, and the old records
\* are deleted before the first insert.
C17_SeedReplacesCollection ==
  /\ [](SeededFromDataset)
  /\ [](IF seedPc = "start" THEN db = OldRecipes ELSE NoOldRecipes)
  /\ [][db' # db =>
          \/ (seedPc = "start" /\ db' = <<>>)
          \/ /\ seedPc = "insert"
             /\ Len(db') - Len(db) \in 1..50
             /\ db = SubSeq(NewDocs, 1, Len(db))
             /\ db' = SubSeq(NewDocs, 1, Len(db'))
             /\ (Len(db') - Len(db) < 50 =>
                   Len(db') = Len(NewDocs) \/ seedPc' = "failed")]_vars

\* C17 witness: a run on a file of 102 entries, one of them without a title,
\* has exited successfully after three batches
C17_Witness ==
  /\ seedPc = "exited"
  /\ Len(db) = 2 * batchSize + 1 /\ Len(recipeData) = Len(db) + 1
  /\ seedI = 3 * batchSize

\* the seed run has ended, with exit code 0 or 1
SeedEnded == seedPc \in {"exited", "failed"}

\* C18: when a record fails validation on creation during the import (a
\* rating above 5, a rating that is not a number), only that record is
\* skipped: once the run has ended, the collection holds the record of every
\* other titled entry.
C18_InvalidRecordSkipped ==
  SeedEnded => db = ToDocs(SelectSeq(formattedRecipes, Valid))

\* the entry a built record was built from
EntryOf(f) == recipeData[f.id]

\* e.prep_time + e.cook_time with each missing part taken as 0
PrepPlusCook(e) ==
  Plus(IF e.prep_time.k = "missing" THEN Num(0) ELSE e.prep_time,
       IF e.cook_time.k = "missing" THEN Num(0) ELSE e.cook_time)

\* the defaults of a built record f other than its total_time
BuiltDefaults(f) ==
  LET e == EntryOf(f)
  IN /\ ~Falsy(e.title)
     /\ Falsy(e.cuisine) => f.cuisine = Text(UncategorizedStr)
     /\ \A t \in {"rating", "prep_time", "cook_time"} :
          e[t].k = "missing" => f[t] = Num(0)
     /\ e.ingredients.k = "missing" => f.ingredients = List(<<>>)
     /\ e.instructions.k = "missing" => f.instructions = List(<<>>)
     /\ ( /\ \A t \in DOMAIN e : t \notin {"title", "cuisine"} => e[t].k = "missing"
          /\ ~Falsy(e.cuisine) )
        => /\ f.rating = Num(0) /\ f.total_time = Num(0)
           /\ f.ingredients = List(<<>>) /\ f.instructions = List(<<>>)

\* C19 as stated: every record the import builds from an entry with a title
\* has cuisine 'Uncategorized' when the entry has none, rating, prep_time and
\* cook_time 0 when missing, ingredients and instructions [] when missing,
\* and total_time equal to the entry's own total_time when it is present,
\* otherwise prep_time + cook_time with each missing part taken as 0.
C19_BuiltRecordDefaults ==
  seedPc # "start" =>
    \A j \in 1..Len(formattedRecipes) :
      LET f == formattedRecipes[j]
          e == EntryOf(f)
      IN /\ BuiltDefaults(f)
         /\ f.total_time = IF e.total_time.k # "missing" THEN e.total_time
                           ELSE PrepPlusCook(e)

\* C19 amended: as C19, but total_time is the entry's own total_time only
\* when that is present and not 0; an entry whose total_time is 0 gets
\* prep_time + cook_time like an entry without one.
C19_BuiltRecordDefaultsNonZero ==
  seedPc # "start" =>
    \A j \in 1..Len(formattedRecipes) :
      LET f == formattedRecipes[j]
          e == EntryOf(f)
      IN /\ BuiltDefaults(f)
         /\ f.total_time = IF ~Falsy(e.total_time) THEN e.total_time
                           ELSE PrepPlusCook(e)

\* C19 witness: the import has stored the record of an entry with only a
\* title and a cuisine, and the record of an entry whose total_time is 0
\* beside a prep_time, stored with that prep_time as its total_time
C19_Witness ==
  /\ seedPc = "exited" /\ Len(db) = 2
  /\ recipeData[1].total_time = Num(0) /\ recipeData[1].prep_time.v > 0
  /\ db[1].total_time = recipeData[1].prep_time.v
  /\ \A t \in DOMAIN recipeData[2] :
       t \notin {"title", "cuisine"} => recipeData[2][t].k = "missing"
  /\ db[2].rating = 0 /\ db[2].total_time = 0
  /\ db[2].ingredients = <<>> /\ db[2].instructions = <<>>

\* the records the import has handed to insertMany so far
Handed ==
  SubSeq(formattedRecipes, 1,
         Min(seedI + (IF seedPc = "failed" THEN batchSize ELSE 0),
             Len(formattedRecipes)))

\* C20: whenever a record is written to the store, including by the import,
\* each of its numeric fields rating, prep_time, cook_time, total_time whose
\* value does not parse as a number is normalized to null before it is
\* stored: every record handed to the store with such a field is stored with
\* null in it.
C20_UnparsableStoredAsNull ==
  \A j \in 1..Len(Handed) :
    (\E t \in NumberPaths : CastNumber(Handed[j][t]).nan) =>
      \E d \in 1..Len(db) : db[d] = ToDoc(preSave(Handed[j]))

\* C21: after any sequence of handleSearch calls the stored searchParams have
\* no key whose value is the empty string, so no request in flight carries an
\* empty parameter (clearing a column filter removes its key).
C21_NoEmptySearchParam ==
  /\ \A k \in DOMAIN app.searchParams : app.searchParams[k] # <<>>
  /\ \A f \in fetches.inFlight : \A k \in DOMAIN f.params : f.params[k] # <<>>

\* the requests a step sends
Sent == fetches'.inFlight \ fetches.inFlight

\* the arguments RecipeTable can pass to onSearch in the current state
TableCalls ==
  {Spread([q |-> table.searchTerm], table.filters), [q |-> <<>>]} \cup
  UNION {{[table.filters EXCEPT ![field] = value] : value \in FilterValues(field)} :
           field \in DOMAIN table.filters}

\* C22: every handleSearch call and every page-size change sets the page
\* index to 0 (a page-size change also sets pageSize, neither changes total)
\* and the request sent after it asks for page 1; a page change alters only
\* the page index and the request sent after it asks for that page plus one.
C22_SearchAndPageSizeResetPage ==
  [][/\ \A params \in TableCalls :
          handleSearch(params) =>
            /\ app'.pagination = [app.pagination EXCEPT !.page = 0]
            /\ Sent # {}
            /\ \A f \in Sent : f.params["page"] = <<"1">>
     /\ \A newPageSize \in rowsPerPageOptions :
          handlePageSizeChange(newPageSize) =>
            /\ app'.pagination =
                 [app.pagination EXCEPT !.page = 0, !.pageSize = newPageSize]
            /\ app'.searchParams = app.searchParams
            /\ newPageSize # app.pagination.pageSize => Sent # {}
            /\ \A f \in Sent : /\ f.params["page"] = <<"1">>
                                /\ f.params["limit"] = NatStr(newPageSize)
     /\ \A newPage \in Pages :
          handlePageChange(newPage) =>
            /\ app' = [app EXCEPT !.pagination.page = newPage,
                                  !.isLoading = app'.isLoading]
            /\ \A f \in Sent : f.params["page"] = NatStr(newPage + 1)
    ]_vars

\* C22 witness: the page asked for page 2 and then, after another page size
\* was chosen or a filter was edited, for page 1, and shows page index 0
C22_Witness ==
  /\ app.pagination.page = 0
  /\ \E f, g \in fetches.inFlight :
       /\ f.id < g.id
       /\ f.params["page"] = <<"2">>
       /\ g.params["page"] = <<"1">>
       /\ \/ g.params["limit"] # f.params["limit"]
          \/ ("cuisine" \in DOMAIN g.params /\ "cuisine" \notin DOMAIN f.params)

\* C23: in every reachable state of the recipe-detail drawer, under any
\* interleaving of openRecipeDetails, closeRecipeDetails and the callbacks
\* closeRecipeDetails schedules, an open drawer has a recipe to show.
C23_OpenDrawerHasRecipe ==
  drawer.isDrawerOpen => drawer.selectedRecipe # NoRecipe

\* C24: when requests of the page overlapped, then once all of them are
\* answered the displayed recipes and total are those of the answer to the
\* most recently issued request, whatever the order the answers arrived in.
C24_LatestRequestShown ==
  (fetches.inFlight = {} /\ fetches.latest.st = "ok") =>
    /\ app.recipes = fetches.latest.data
    /\ app.pagination.total = fetches.latest.total

\* C25: isLoading is true in every state in which a request of the page is
\* in flight and false once none is, also after a failed request, which
\* leaves the displayed recipes and total unchanged.
C25_LoadingWhileInFlight ==
  /\ [](fetches.inFlight # {} => app.isLoading)
  /\ []((fetches.inFlight = {} /\ fetches.issued > 0) => ~app.isLoading)
  /\ [][Reject => /\ app'.recipes = app.recipes
                  /\ app'.pagination = app.pagination]_vars

\* C26 as stated: if a batch insert fails during seeding, the run stops with
\* exit code 1 without attempting later batches, and the collection holds
\* exactly the records of the batches inserted before the failure and none
\* of the records present before the run.
C26_FailedBatchLeavesEarlierBatches ==
  /\ [](seedPc = "failed" => db = SubSeq(NewDocs, 1, seedI) /\ NoOldRecipes)
  /\ [][seedPc # "failed"]_vars

\* the batch whose insert failed has a record that fails validation
FailedValidation ==
  \E j \in 1..Len(BatchAt(seedI)) : ~Valid(BatchAt(seedI)[j])

\* C26: if a batch insert fails during seeding, the run stops with exit code
\* 1 without attempting later batches, and the collection holds none of the
\* records present before the run, the records of the batches inserted
\* before the failure and, when the store failed while writing a batch that
\* passed validation, a leading part of the failing batch; a batch that
\* fails validation adds no record.
C26_FailedBatchLeavesPrefix ==
  /\ [](seedPc = "failed" =>
          /\ NoOldRecipes
          /\ seedI % batchSize = 0
          /\ Len(db) \in seedI..(seedI + Len(BatchAt(seedI)))
          /\ db = SubSeq(NewDocs, 1, Len(db))
          /\ FailedValidation => Len(db) = seedI)
  /\ [][seedPc # "failed"]_vars

\* C26 witness: the second batch failed in the store after its first record
\* was written
C26_Witness ==
  /\ seedPc = "failed"
  /\ seedI = batchSize
  /\ Len(db) = batchSize + 1

\* the request without the parameters the list endpoint does not name
NamedOnly == [p \in DOMAIN req \cap ListParams |-> req[p]]

\* C27: the list endpoint's filter, sort and page window depend only on q,
\* cuisine, rating, maxTotalTime, prep_time, cook_time, total_time, sortBy,
\* sortOrder, page and limit: the filter, sort and window built for a request
\* are those of the request without its other parameters (title, minRating,
\* ...), and so is its answer.
C27_OtherParametersIgnored ==
  (pc # "idle" /\ ep = "list") =>
    LET q == ListQuery(NamedOnly)
        pg == PageOf(NamedOnly)
        lim == LimitOf(NamedOnly)
    IN /\ query = q /\ sort = SortOf(NamedOnly)
       /\ page = pg /\ limit = lim /\ skip = SkipOf(pg, lim)
       /\ Answered =>
            /\ res.page = pg /\ res.limit = lim
            /\ res.total = Cardinality(MatchingIdx(db, q))
            /\ \E ord \in SortedOrders(db, q, SortOf(NamedOnly)) :
                 res.data = Window(ord, SkipOf(pg, lim), lim)

\* C27 witness: a request with title "B" and minRating 4 is answered with a
\* record whose title has no b and whose rating is 2
C27_Witness ==
  /\ Answered /\ ep = "list"
  /\ Given(req, "title") /\ req["title"] = <<"B">>
  /\ Given(req, "minRating") /\ req["minRating"] = <<"4">>
  /\ \E k \in 1..Len(res.data) :
       /\ ~Contains(res.data[k].title, req["title"])
       /\ res.data[k].rating = 20

====
